---- MODULE Spec2Model ----
(***************************************************************************)
(* SingleLinkedList<Type> of src/main.cpp as a state machine.              *)
(*                                                                         *)
(* The heap is a pool of node cells; `new Node` takes a free cell (any of  *)
(* them: the allocator chooses the address) or throws, `delete` returns a  *)
(* cell.  A list object is its inline sentinel head_ (only head_.next_node *)
(* matters) and its counter size_.  Every operation of the class is one    *)
(* action; the operations are operators over a record of the whole memory  *)
(* so that the constructors, operator=, Clear and the destructor are built *)
(* from PushFront, PopFront and swap exactly as the code builds them.      *)
(***************************************************************************)
EXTENDS Integers, Sequences, FiniteSets, TLC

\* Bounds of the model.
MaxNodes == 4      \* cells of the heap
MaxVal   == 2      \* element values are 1..MaxVal
MaxInit  == 2      \* longest initializer list

Null   == 0                     \* nullptr
Nodes  == 1..MaxNodes           \* addresses of heap cells
Tmp    == 0                     \* the local rhs_copy of operator=
Lists  == {1, 2}                \* the list objects a and b of the program
Slots  == Lists \cup {Tmp}      \* every list object, the temporary included
Values == 1..MaxVal

\* The address of the sentinel head_ of list object l (a negative reference).
Sentinel(l) == 0 - (l + 1)
IsSentinel(r) == r < 0
OwnerOf(r) == (0 - r) - 1
Refs == Nodes \cup {Null} \cup {Sentinel(l) : l \in Lists}

\* A heap cell: struct Node { Type value; Node* next_node; } and whether the
\* cell is currently allocated.
FreeNode == [live |-> FALSE, value |-> 0, next_node |-> Null]
Node(val, next) == [live |-> TRUE, value |-> val, next_node |-> next]

VARIABLES
    heap,     \* Nodes -> cell
    head_,    \* Slots -> head_.next_node of the list object
    size_,    \* Slots -> size_ of the list object
    alive,    \* Slots -> the object is between its constructor and destructor
    dfree,    \* a delete was applied to a cell that was not allocated
    failed,   \* history: some operation has thrown
    copyOf    \* history: Lists -> the list it was last copied from, or 0

vars == <<heap, head_, size_, alive, dfree, failed, copyOf>>

\* What a read through nullptr gives when it does not stop the program with a
\* memory fault: any pointer value.  Fault stands for the fault.
Fault == MaxNodes + 1
NullReads == Nodes \cup {Null, Fault}

\* The memory as one record.  thrown, ret and stopped are the outcome of an
\* operation: stopped is "no", or what ended the program ("assert" for a
\* failed assert, "terminate" for an exception leaving a noexcept function,
\* "fault" for a memory fault).  copyFailsAt and nullRead are what the
\* environment decides: the copy of a Type value made outside `new Node` that
\* throws (the k-th from now, 0 for none), and what a read through nullptr
\* gives.
Cur == [heap |-> heap, head_ |-> head_, size_ |-> size_, alive |-> alive,
        dfree |-> dfree, thrown |-> FALSE, ret |-> Null,
        stopped |-> "no", copyFailsAt |-> 0, nullRead |-> Fault]

\* The current memory in an environment where the k-th copy of a Type value
\* throws and a read through nullptr gives g.
Env(k, g) == [Cur EXCEPT !.copyFailsAt = k, !.nullRead = g]

----------------------------------------------------------------------------
\* Reading and writing memory.

CellAt(s, n) == IF n \in Nodes THEN s.heap[n] ELSE FreeNode

\* r->next_node for a reference to a sentinel or to a cell.
NextOf(s, r) ==
    IF IsSentinel(r) THEN s.head_[OwnerOf(r)] ELSE CellAt(s, r).next_node

SetNext(s, r, n) ==
    IF IsSentinel(r) THEN [s EXCEPT !.head_[OwnerOf(r)] = n]
    ELSE IF r \in Nodes THEN [s EXCEPT !.heap[r].next_node = n]
    ELSE s

\* delete n; deleting nullptr does nothing.
Delete(s, n) ==
    IF n = Null THEN s
    ELSE IF n \in Nodes /\ s.heap[n].live THEN [s EXCEPT !.heap[n] = FreeNode]
    ELSE [s EXCEPT !.dfree = TRUE]

\* The cells met by it = start; it != end(); ++it, in order.  The walk is cut
\* after MaxNodes + 1 steps, so a cyclic chain shows as a repeated cell.
RECURSIVE Walk(_, _, _)
Walk(s, n, fuel) ==
    IF n = Null \/ fuel = 0 THEN <<>>
    ELSE <<n>> \o Walk(s, CellAt(s, n).next_node, fuel - 1)

Chain(s, l) == Walk(s, s.head_[l], MaxNodes + 1)

\* The values read by for (auto value : list).
Elems(s, l) == LET c == Chain(s, l) IN [i \in 1..Len(c) |-> CellAt(s, c[i]).value]

ChainSet(s, l) == {Chain(s, l)[i] : i \in 1..Len(Chain(s, l))}

\* The positions that belong to list l: before_begin() and its elements.
Positions(s, l) == {Sentinel(l)} \cup ChainSet(s, l)

\* l.begin(), l.end(), l.before_begin() and ++it, on the iterator's node_.
begin(s, l) == s.head_[l]
end(s, l) == Null
before_begin(s, l) == Sentinel(l)
Incr(s, r) == NextOf(s, r)

\* An iterator is valid while what it references exists: end(), the sentinel
\* of a list object that exists, or an allocated cell.
IterValid(s, r) ==
    \/ r = Null
    \/ IsSentinel(r) /\ s.alive[OwnerOf(r)]
    \/ r \in Nodes /\ s.heap[r].live

LiveCells(s) == {c \in Nodes : s.heap[c].live}

----------------------------------------------------------------------------
\* The operations of the class.  n (or ids) is what `new` returns: a free cell,
\* or Null when the allocation or the copy of the value throws.

\* A PushFront that counts the element before it allocates the node.
PushFront_CountsFirst(s, l, v, n) ==
    IF n = Null THEN [s EXCEPT !.size_[l] = @ + 1, !.thrown = TRUE]
    ELSE [s EXCEPT !.heap[n] = Node(v, s.head_[l]),
                   !.head_[l] = n,
                   !.size_[l] = @ + 1]

PushFront(s, l, v, n) ==
    IF n = Null THEN [s EXCEPT !.thrown = TRUE]
    ELSE [s EXCEPT !.heap[n] = Node(v, s.head_[l]),
                   !.head_[l] = n,
                   !.size_[l] = @ + 1]

\* A PopFront that unlinks the first node and forgets to delete it.
PopFront_NoDelete(s, l) ==
    LET next == s.head_[l]
        s1 == [s EXCEPT !.head_[l] = CellAt(s, next).next_node]
    IN  [s1 EXCEPT !.size_[l] = @ - 1]

\* A PopFront that forgets --size_.
PopFront_NoDecrement(s, l) ==
    LET next == s.head_[l]
    IN  Delete([s EXCEPT !.head_[l] = CellAt(s, next).next_node], next)

\* `auto next = head_;` copies the sentinel Node, its Type value included;
\* PopFront is noexcept, so a throw of that copy ends in std::terminate.
\* The function has no assert: on an empty list head_.next_node->next_node is
\* a read through nullptr, then delete nullptr does nothing and --size_ wraps
\* (size_t(-1), written -1 here).
PopFront(s, l) ==
    IF s.copyFailsAt = 1 THEN [s EXCEPT !.stopped = "terminate"]
    ELSE LET c == [s EXCEPT !.copyFailsAt = IF @ = 0 THEN 0 ELSE @ - 1]
             next == c.head_[l]
         IN  IF next = Null
             THEN IF c.nullRead = Fault THEN [c EXCEPT !.stopped = "fault"]
                  ELSE [c EXCEPT !.head_[l] = c.nullRead, !.size_[l] = @ - 1]
             ELSE LET s1 == [c EXCEPT !.head_[l] = CellAt(c, next).next_node]
                      s2 == Delete(s1, next)
                  IN  [s2 EXCEPT !.size_[l] = @ - 1]

\* An InsertAfter whose new node does not take over the successor of pos.
InsertAfter_DropsRest(s, l, pos, v, n) ==
    IF n = Null THEN [s EXCEPT !.thrown = TRUE]
    ELSE LET s1 == [s EXCEPT !.heap[n] = Node(v, Null)]
             s2 == SetNext(s1, pos, n)
         IN  [s2 EXCEPT !.size_[l] = @ + 1, !.ret = NextOf(s2, pos)]

InsertAfter(s, l, pos, v, n) ==
    IF n = Null THEN [s EXCEPT !.thrown = TRUE]
    ELSE LET s1 == [s EXCEPT !.heap[n] = Node(v, NextOf(s, pos))]
             s2 == SetNext(s1, pos, n)
         IN  [s2 EXCEPT !.size_[l] = @ + 1, !.ret = NextOf(s2, pos)]

\* An EraseAfter that relinks pos before it deletes pos's successor, and so
\* deletes the node after the one to remove.
EraseAfter_DeleteAfterRelink(s, l, pos) ==
    LET after_next_pos == NextOf(s, NextOf(s, pos))
        s1 == SetNext(s, pos, after_next_pos)
        s2 == Delete(s1, NextOf(s1, pos))
    IN  [s2 EXCEPT !.size_[l] = @ - 1, !.ret = after_next_pos]

\* An EraseAfter that forgets to decrement the counter.
EraseAfter_NoDecrement(s, l, pos) ==
    LET after_next_pos == NextOf(s, NextOf(s, pos))
        s1 == Delete(s, NextOf(s, pos))
        s2 == SetNext(s1, pos, after_next_pos)
    IN  [s2 EXCEPT !.ret = after_next_pos]

\* An EraseAfter that returns the position it was given.
EraseAfter_ReturnsPos(s, l, pos) ==
    LET after_next_pos == NextOf(s, NextOf(s, pos))
        s1 == Delete(s, NextOf(s, pos))
        s2 == SetNext(s1, pos, after_next_pos)
    IN  [s2 EXCEPT !.size_[l] = @ - 1, !.ret = pos]

\* The two asserts stop the program (a build with asserts) when the list is
\* empty or pos has no successor.
EraseAfter(s, l, pos) ==
    IF s.size_[l] = 0 \/ NextOf(s, pos) = Null THEN [s EXCEPT !.stopped = "assert"]
    ELSE LET after_next_pos == NextOf(s, NextOf(s, pos))
             s1 == Delete(s, NextOf(s, pos))
             s2 == SetNext(s1, pos, after_next_pos)
         IN  [s2 EXCEPT !.size_[l] = @ - 1, !.ret = after_next_pos]

\* while (head_.next_node != nullptr) PopFront(); nothing more runs once the
\* program has stopped.
RECURSIVE Clear(_, _)
Clear(s, l) ==
    IF s.stopped = "no" /\ s.head_[l] # Null THEN Clear(PopFront(s, l), l) ELSE s

\* A swap that exchanges the chains and forgets the counters.
swap_HeadsOnly(s, a, b) ==
    [s EXCEPT !.head_[a] = s.head_[b], !.head_[b] = s.head_[a]]

\* A swap that assigns one way only.
swap_OneWay(s, a, b) ==
    [s EXCEPT !.head_[a] = s.head_[b], !.size_[a] = s.size_[b]]

swap(s, a, b) ==
    [s EXCEPT !.head_[a] = s.head_[b], !.head_[b] = s.head_[a],
              !.size_[a] = s.size_[b], !.size_[b] = s.size_[a]]

\* The free function swap(lhs, rhs): lhs.swap(rhs).
FreeSwap(s, lhs, rhs) == swap(s, lhs, rhs)

\* ~SingleLinkedList(); afterwards the object's storage is gone.
Destroy(s, l) ==
    LET c == Clear(s, l)
    IN  IF c.stopped # "no" THEN c
        ELSE [c EXCEPT !.alive[l] = FALSE, !.head_[l] = Null, !.size_[l] = 0]

\* PushFront(vals[i]), PushFront(vals[i-1]), ..., PushFront(vals[1]); the k-th
\* allocation returns ids[k]; a throw ends the loop.
RECURSIVE PushBackwards(_, _, _, _, _)
PushBackwards(s, l, vals, ids, i) ==
    IF i = 0 \/ s.thrown THEN s
    ELSE PushBackwards(PushFront(s, l, vals[i], ids[Len(vals) - i + 1]),
                       l, vals, ids, i - 1)

\* A constructor that throws leaves no object: ~SingleLinkedList() is not run
\* for it, and the destructor of the member head_ (a Node) frees nothing.
Constructed(s, l) ==
    IF s.thrown THEN [s EXCEPT !.head_[l] = Null, !.size_[l] = 0]
    ELSE [s EXCEPT !.alive[l] = TRUE]

DefaultCtor(s, l) ==
    Constructed([s EXCEPT !.head_[l] = Null, !.size_[l] = 0], l)

\* An initializer-list constructor that pushes the values first to last.
InitListCtor_Forward(s, l, values, ids) ==
    LET s0 == [s EXCEPT !.head_[l] = Null, !.size_[l] = 0]
        backwards == [i \in 1..Len(values) |-> values[Len(values) + 1 - i]]
    IN  Constructed(PushBackwards(s0, l, backwards, ids, Len(values)), l)

\* The loop runs it from values.end() - 1 down to values.begin(): the values
\* are pushed last to first.
InitListCtor(s, l, values, ids) ==
    LET s0 == [s EXCEPT !.head_[l] = Null, !.size_[l] = 0]
    IN  Constructed(IF Len(values) # 0
                    THEN PushBackwards(s0, l, values, ids, Len(values))
                    ELSE s0, l)

Reverse(q) == [i \in 1..Len(q) |-> q[Len(q) + 1 - i]]

\* A copy constructor that pushes the values front to back.
CopyCtor_NoReverse(s, l, other, ids) ==
    LET s0 == [s EXCEPT !.head_[l] = Null, !.size_[l] = 0]
        for_reverse == Reverse(Elems(s0, other))
    IN  Constructed(IF Len(for_reverse) # 0
                    THEN PushBackwards(s0, l, for_reverse, ids, Len(for_reverse))
                    ELSE s0, l)

\* A copy constructor that copies the members head_ and size_ and no node.
CopyCtor_Shallow(s, l, other, ids) ==
    Constructed([s EXCEPT !.head_[l] = s.head_[other], !.size_[l] = s.size_[other]], l)

CopyCtor(s, l, other, ids) ==
    LET s0 == [s EXCEPT !.head_[l] = Null, !.size_[l] = 0]
        for_reverse == Elems(s0, other)
    IN  Constructed(IF Len(for_reverse) # 0
                    THEN PushBackwards(s0, l, for_reverse, ids, Len(for_reverse))
                    ELSE s0, l)

IsEmpty(s, l) == s.size_[l] = 0

\* An operator= that empties the target before it copies the source.
OpAssign_ClearFirst(s, l, rhs, ids) ==
    IF l # rhs
    THEN LET c == CopyCtor(Clear(s, l), Tmp, rhs, ids)
         IN  IF c.thrown THEN c
             ELSE Destroy(swap(c, l, Tmp), Tmp)
    ELSE s

OpAssign(s, l, rhs, ids) ==
    IF l # rhs
    THEN IF IsEmpty(s, rhs) THEN Clear(s, l)
         ELSE LET c == CopyCtor(s, Tmp, rhs, ids)
              IN  IF c.thrown THEN c
                  ELSE Destroy(swap(c, l, Tmp), Tmp)
    ELSE s

GetSize(s, l) == s.size_[l]

\* std::equal(first1, last1, first2) with last1 = end(): compares the range
\* from first1 with as many elements from first2.
RECURSIVE equal(_, _, _)
equal(s, first1, first2) ==
    IF first1 = Null THEN TRUE
    ELSE IF CellAt(s, first1).value # CellAt(s, first2).value THEN FALSE
    ELSE equal(s, Incr(s, first1), Incr(s, first2))

\* An operator== that leaves out the comparison of the sizes.
operator_eq_NoSizeTest(s, lhs, rhs) == equal(s, begin(s, lhs), begin(s, rhs))

operator_eq(s, lhs, rhs) ==
    IF GetSize(s, lhs) # GetSize(s, rhs) THEN FALSE
    ELSE equal(s, begin(s, lhs), begin(s, rhs))

operator_ne(s, lhs, rhs) == ~operator_eq(s, lhs, rhs)

\* A comparison that decides on the first pair where the left value is
\* smaller and skips over a pair where it is larger.
lexicographical_compare_OneTest(s, first1, first2) ==
    LET RECURSIVE scan(_, _)
        scan(f1, f2) ==
            IF f1 = Null \/ f2 = Null THEN f1 = Null /\ f2 # Null
            ELSE IF CellAt(s, f1).value < CellAt(s, f2).value THEN TRUE
            ELSE scan(Incr(s, f1), Incr(s, f2))
    IN  scan(first1, first2)

\* std::lexicographical_compare(first1, last1, first2, last2) with both ends
\* end(): the first pair of unequal elements decides; with no such pair the
\* first range is less when it ends first.
RECURSIVE lexicographical_compare(_, _, _)
lexicographical_compare(s, first1, first2) ==
    IF first1 = Null \/ first2 = Null THEN first1 = Null /\ first2 # Null
    ELSE IF CellAt(s, first1).value < CellAt(s, first2).value THEN TRUE
    ELSE IF CellAt(s, first2).value < CellAt(s, first1).value THEN FALSE
    ELSE lexicographical_compare(s, Incr(s, first1), Incr(s, first2))

operator_lt(s, lhs, rhs) == lexicographical_compare(s, begin(s, lhs), begin(s, rhs))
operator_le(s, lhs, rhs) == ~operator_lt(s, rhs, lhs)
operator_gt(s, lhs, rhs) == operator_lt(s, rhs, lhs)
operator_ge(s, lhs, rhs) == ~operator_gt(s, rhs, lhs)

----------------------------------------------------------------------------
\* What `new` can return over n successive allocations from memory s: distinct
\* free cells, and after a throw nothing more is allocated.
AllocSeqs(s, n) ==
    {ids \in [1..n -> Nodes \cup {Null}] :
        /\ \A i \in 1..n : ids[i] # Null => ~s.heap[ids[i]].live
        /\ \A i, j \in 1..n : (i < j /\ ids[i] # Null) => ids[i] # ids[j]
        /\ \A i, j \in 1..n : (i < j /\ ids[i] = Null) => ids[j] = Null}

InitLists == UNION {[1..n -> Values] : n \in 0..MaxInit}

Init ==
    /\ heap = [n \in Nodes |-> FreeNode]
    /\ head_ = [l \in Slots |-> Null]
    /\ size_ = [l \in Slots |-> 0]
    /\ alive = [l \in Slots |-> FALSE]
    /\ dfree = FALSE
    /\ failed = FALSE
    /\ copyOf = [l \in Lists |-> 0]

\* The step of the program that runs an operation and leaves memory t.  An
\* operation that stops the program is the end of the run: no step follows.
Commit(t) ==
    /\ t.stopped = "no"
    /\ heap' = t.heap
    /\ head_' = t.head_
    /\ size_' = t.size_
    /\ alive' = t.alive
    /\ dfree' = t.dfree
    /\ failed' = (failed \/ t.thrown)

Forget(ls) == [m \in Lists |-> IF m \in ls \/ copyOf[m] \in ls THEN 0 ELSE copyOf[m]]

DoDefaultCtor(l) ==
    /\ ~alive[l]
    /\ Commit(DefaultCtor(Cur, l))
    /\ UNCHANGED copyOf

DoInitListCtor(l) ==
    /\ ~alive[l]
    /\ \E values \in InitLists : \E ids \in AllocSeqs(Cur, Len(values)) :
         Commit(InitListCtor(Cur, l, values, ids))
    /\ UNCHANGED copyOf

DoCopyCtor(l, other) ==
    /\ ~alive[l] /\ alive[other]
    /\ \E ids \in AllocSeqs(Cur, Len(Elems(Cur, other))) :
         LET t == CopyCtor(Cur, l, other, ids) IN
         /\ Commit(t)
         /\ copyOf' = IF t.thrown THEN copyOf ELSE [copyOf EXCEPT ![l] = other]

DoOpAssign(l, rhs) ==
    /\ alive[l] /\ alive[rhs]
    /\ \E ids \in AllocSeqs(Cur, IF l = rhs THEN 0 ELSE Len(Elems(Cur, rhs))) :
         LET t == OpAssign(Cur, l, rhs, ids) IN
         /\ Commit(t)
         /\ copyOf' = IF t.thrown \/ l = rhs THEN copyOf
                      ELSE [Forget({l}) EXCEPT ![l] = rhs]

DoSwap(l, other) ==
    /\ alive[l] /\ alive[other]
    /\ Commit(swap(Cur, l, other))
    /\ copyOf' = IF l = other THEN copyOf ELSE Forget({l, other})

DoFreeSwap(l, other) ==
    /\ alive[l] /\ alive[other]
    /\ Commit(FreeSwap(Cur, l, other))
    /\ copyOf' = IF l = other THEN copyOf ELSE Forget({l, other})

DoDestroy(l) ==
    /\ alive[l]
    /\ Commit(Destroy(Cur, l))
    /\ copyOf' = Forget({l})

DoPushFront(l) ==
    /\ alive[l]
    /\ \E v \in Values : \E ids \in AllocSeqs(Cur, 1) :
         Commit(PushFront(Cur, l, v, ids[1]))
    /\ UNCHANGED copyOf

\* Precondition: the list is not empty.
DoPopFront(l) ==
    /\ alive[l] /\ head_[l] # Null
    /\ Commit(PopFront(Cur, l))
    /\ UNCHANGED copyOf

\* Precondition: pos is before_begin() or an element of this list.
DoInsertAfter(l) ==
    /\ alive[l]
    /\ \E pos \in Positions(Cur, l) : \E v \in Values : \E ids \in AllocSeqs(Cur, 1) :
         Commit(InsertAfter(Cur, l, pos, v, ids[1]))
    /\ UNCHANGED copyOf

\* Precondition: pos belongs to this list and has a successor.
DoEraseAfter(l) ==
    /\ alive[l]
    /\ \E pos \in Positions(Cur, l) :
         /\ ~IsEmpty(Cur, l)
         /\ NextOf(Cur, pos) # Null
         /\ Commit(EraseAfter(Cur, l, pos))
    /\ UNCHANGED copyOf

DoClear(l) ==
    /\ alive[l]
    /\ Commit(Clear(Cur, l))
    /\ UNCHANGED copyOf

Next ==
    \/ \E l \in Lists : DoDefaultCtor(l)
    \/ \E l \in Lists : DoInitListCtor(l)
    \/ \E l, other \in Lists : DoCopyCtor(l, other)
    \/ \E l, rhs \in Lists : DoOpAssign(l, rhs)
    \/ \E l, other \in Lists : DoSwap(l, other)
    \/ \E l, other \in Lists : DoFreeSwap(l, other)
    \/ \E l \in Lists : DoDestroy(l)
    \/ \E l \in Lists : DoPushFront(l)
    \/ \E l \in Lists : DoPopFront(l)
    \/ \E l \in Lists : DoInsertAfter(l)
    \/ \E l \in Lists : DoEraseAfter(l)
    \/ \E l \in Lists : DoClear(l)

Spec == Init /\ [][Next]_vars

----------------------------------------------------------------------------
\* Properties.

Other(l) == CHOOSE m \in Lists : m # l

\* C1: the stored element count of every list equals the number of nodes
\* reachable from its sentinel by next links, the sentinel excluded, after any
\* sequence of operations whose preconditions are met.
C1_SizeCountsChain ==
    \A l \in Lists : alive[l] => size_[l] = Len(Chain(Cur, l))

\* Two lists of different lengths, which swap exchanges counters included.
C1_Witness ==
    /\ alive[1] /\ alive[2]
    /\ size_[1] = 2 /\ Len(Chain(Cur, 1)) = 2
    /\ size_[2] = 1 /\ Len(Chain(Cur, 2)) = 1
    /\ LET t == swap(Cur, 1, 2)
       IN  t.size_[1] = 1 /\ Len(Chain(t, 1)) = 1 /\ t.size_[2] = 2

\* The cells owned by the list objects that exist.
Owned(s) == UNION {ChainSet(s, l) : l \in {m \in Lists : s.alive[m]}}

\* C2: as long as no allocation or element copy has failed, no node is freed
\* twice, no freed node is linked into a chain, every allocated node is in the
\* chain of a list (none is leaked), and once every list is destroyed no
\* allocated node remains.
C2_AllocFreePaired ==
    ~failed =>
        /\ ~dfree
        /\ \A c \in Owned(Cur) : heap[c].live
        /\ LiveCells(Cur) = Owned(Cur)
        /\ (\A l \in Lists : ~alive[l]) => LiveCells(Cur) = {}

\* A list and its copy fill the heap, and destroying both frees every cell once.
C2_Witness ==
    /\ ~failed
    /\ alive[1] /\ alive[2] /\ copyOf[2] = 1
    /\ LiveCells(Cur) = Nodes
    /\ LET t == Destroy(Destroy(Cur, 1), 2)
       IN  LiveCells(t) = {} /\ ~t.dfree

\* The predecessors of cell c: the allocated cells and the sentinels whose
\* next link is c.
PredCells(s, c) == {d \in Nodes : s.heap[d].live /\ s.heap[d].next_node = c}
PredLists(s, c) == {l \in Lists : s.alive[l] /\ s.head_[l] = c}

\* C3: in every reachable state every live node has exactly one predecessor
\* (a node or one list's sentinel), no chain has a cycle, and no node is
\* reachable from the sentinels of two lists.
C3_TreeShaped ==
    /\ \A c \in LiveCells(Cur) :
          Cardinality(PredCells(Cur, c)) + Cardinality(PredLists(Cur, c)) = 1
    /\ \A l \in Lists : alive[l] =>
          Cardinality(ChainSet(Cur, l)) = Len(Chain(Cur, l))
    /\ \A l, m \in Lists :
          (l # m /\ alive[l] /\ alive[m]) => ChainSet(Cur, l) \cap ChainSet(Cur, m) = {}


FreeCells(s) == Nodes \ LiveCells(s)

\* EraseAfter(InsertAfter(pos, v)): the erase is given the iterator that the
\* insert returns.
EraseAfterInserted(s, l, pos, v, n) ==
    LET t == InsertAfter(s, l, pos, v, n) IN EraseAfter(t, l, t.ret)

\* InsertAfter(pos, v) followed by EraseAfter(pos).
InsertThenEraseAt(s, l, pos, v, n) ==
    EraseAfter(InsertAfter(s, l, pos, v, n), l, pos)

\* C4 as stated: for every list, valid position pos and value v,
\* EraseAfter(InsertAfter(pos, v)) restores the size and the element sequence
\* (where the iterator returned by the insert has a successor, as EraseAfter
\* requires).
C4_EraseAfterInsertedRestores ==
    \A l \in Lists : alive[l] =>
        \A pos \in Positions(Cur, l) : \A v \in Values : \A n \in FreeCells(Cur) :
            LET t1 == InsertAfter(Cur, l, pos, v, n) IN
            NextOf(t1, t1.ret) # Null =>
                LET t2 == EraseAfterInserted(Cur, l, pos, v, n)
                IN  t2.size_[l] = size_[l] /\ Elems(t2, l) = Elems(Cur, l)

\* C4 amended: InsertAfter(pos, v) followed by EraseAfter(pos), an erase after
\* the same position, restores the size, the element sequence and the chain.
C4_InsertThenEraseAtPosRestores ==
    \A l \in Lists : alive[l] =>
        \A pos \in Positions(Cur, l) : \A v \in Values : \A n \in FreeCells(Cur) :
            LET t2 == InsertThenEraseAt(Cur, l, pos, v, n)
            IN  /\ t2.size_[l] = size_[l]
                /\ Elems(t2, l) = Elems(Cur, l)
                /\ Chain(t2, l) = Chain(Cur, l)

\* A two-element list with distinct values and a free cell: inserting after
\* its first element and erasing after that element gives the list back,
\* while erasing after the returned iterator removes the old second element.
C4_Witness ==
    \E l \in Lists : \E n \in FreeCells(Cur) :
        /\ alive[l] /\ size_[l] = 2 /\ Elems(Cur, l) = <<1, 2>>
        /\ LET pos == begin(Cur, l)
               t1 == InsertAfter(Cur, l, pos, 1, n)
           IN  /\ Elems(t1, l) = <<1, 1, 2>> /\ t1.ret = n
               /\ Elems(InsertThenEraseAt(Cur, l, pos, 1, n), l) = <<1, 2>>
               /\ Elems(EraseAfterInserted(Cur, l, pos, 1, n), l) = <<1, 1>>

\* C5: when a construction from a list or from a literal sequence fails
\* part-way, the nodes it had allocated are released: after a failure no
\* allocated node is outside the chains of the lists that exist.
C5_FailedCtorLeavesNoNode ==
    failed => LiveCells(Cur) = Owned(Cur)

\* The memory after an operation that threw is the memory before it.
Untouched(t) ==
    /\ t.thrown
    /\ t.heap = heap /\ t.head_ = head_ /\ t.size_ = size_ /\ t.alive = alive

\* C6: a PushFront or InsertAfter whose allocation (or value copy) fails
\* leaves the list as before the call: same size, elements, nodes and links.
C6_FailedInsertKeepsList ==
    \A l \in Lists : alive[l] => \A v \in Values :
        /\ Untouched(PushFront(Cur, l, v, Null))
        /\ \A pos \in Positions(Cur, l) : Untouched(InsertAfter(Cur, l, pos, v, Null))

\* The heap is exhausted, so the allocation of PushFront and of InsertAfter
\* in the middle of a two-element list can only fail.
C6_Witness ==
    \E l \in Lists :
        /\ alive[l] /\ size_[l] = 2
        /\ FreeCells(Cur) = {} /\ AllocSeqs(Cur, 1) = {<<Null>>}
        /\ PushFront(Cur, l, 1, Null).thrown
        /\ InsertAfter(Cur, l, begin(Cur, l), 1, Null).thrown

\* List m of memory t is list m of the current memory: same counter, same
\* cells in the same order, each with the same value and link.
SameList(t, m) ==
    /\ t.alive[m] = alive[m]
    /\ t.size_[m] = size_[m]
    /\ t.head_[m] = head_[m]
    /\ Chain(t, m) = Chain(Cur, m)
    /\ \A c \in ChainSet(Cur, m) : t.heap[c] = heap[c]

\* C7: when the copy made by a = b fails, a keeps its size, elements and
\* nodes, and b is unchanged.
C7_FailedAssignKeepsBoth ==
    \A l, rhs \in Lists : (alive[l] /\ alive[rhs]) =>
        \A ids \in AllocSeqs(Cur, Len(Elems(Cur, rhs))) :
            LET t == OpAssign(Cur, l, rhs, ids)
            IN  t.thrown => SameList(t, l) /\ SameList(t, rhs)

\* a holds one element and b two; the copy of b gets its first node and
\* fails on the second.
C7_Witness ==
    \E l \in Lists : \E n \in FreeCells(Cur) :
        LET rhs == Other(l)
            t == OpAssign(Cur, l, rhs, <<n, Null>>)
        IN  /\ alive[l] /\ alive[rhs]
            /\ size_[l] = 1 /\ size_[rhs] = 2
            /\ <<n, Null>> \in AllocSeqs(Cur, 2)
            /\ t.thrown /\ t.heap[n].live
            /\ Elems(t, l) = Elems(Cur, l)


\* C8: after a successful copy construction from b, or copy assignment a = b,
\* the target has b's size and b's elements in b's order and b is unchanged,
\* for an empty b, for any prior content of a, and for a = a.
C8_CopyEqualsSource ==
    /\ \A l, other \in Lists : (~alive[l] /\ alive[other]) =>
          \A ids \in AllocSeqs(Cur, Len(Elems(Cur, other))) :
              LET t == CopyCtor(Cur, l, other, ids)
              IN  ~t.thrown =>
                      /\ t.alive[l]
                      /\ t.size_[l] = size_[other]
                      /\ Elems(t, l) = Elems(Cur, other)
                      /\ SameList(t, other)
    /\ \A l, rhs \in Lists : (alive[l] /\ alive[rhs]) =>
          \A ids \in AllocSeqs(Cur, Len(Elems(Cur, rhs))) :
              LET t == OpAssign(Cur, l, rhs, ids)
              IN  ~t.thrown =>
                      /\ t.alive[l]
                      /\ t.size_[l] = size_[rhs]
                      /\ Elems(t, l) = Elems(Cur, rhs)
                      /\ SameList(t, rhs)

\* List 2 was copy-constructed from the two-element list 1; assigning the
\* one-element list 2 to a list of two elements, the empty list to a list,
\* and a list to itself are reachable as well.
C8_Witness ==
    /\ alive[1] /\ alive[2] /\ copyOf[2] = 1
    /\ Elems(Cur, 1) = <<1, 2>> /\ Elems(Cur, 2) = <<1, 2>>
    /\ ChainSet(Cur, 1) \cap ChainSet(Cur, 2) = {}
    /\ Elems(OpAssign(Cur, 1, 1, <<>>), 1) = <<1, 2>>
    /\ LET e == Clear(Cur, 2)
           t == OpAssign(e, 1, 2, <<>>)
       IN  Elems(t, 1) = <<>> /\ t.size_[1] = 0 /\ ~t.thrown
    /\ LET p == PopFront(Cur, 2)
           n == CHOOSE c \in FreeCells(p) : TRUE
           t == OpAssign(p, 1, 2, <<n>>)
       IN  Elems(t, 1) = <<2>> /\ t.size_[1] = 1 /\ Elems(t, 2) = <<2>>

\* The calls that change list l, with every input that meets the preconditions.
Mutations(l) ==
    {PushFront(Cur, l, v, n) : v \in Values, n \in FreeCells(Cur) \cup {Null}}
    \cup (IF head_[l] # Null THEN {PopFront(Cur, l)} ELSE {})
    \cup {InsertAfter(Cur, l, pos, v, n) :
             pos \in Positions(Cur, l), v \in Values, n \in FreeCells(Cur) \cup {Null}}
    \cup {EraseAfter(Cur, l, pos) :
             pos \in {p \in Positions(Cur, l) : NextOf(Cur, p) # Null}}
    \cup {Clear(Cur, l)}

\* C9: once a list has been copied, PushFront, PopFront, InsertAfter,
\* EraseAfter and Clear on the copy leave the source's size, elements and
\* nodes unchanged, and those on the source leave the copy unchanged.
C9_CopyIndependent ==
    \A l, m \in Lists :
        (l # m /\ alive[l] /\ alive[m] /\ (copyOf[l] = m \/ copyOf[m] = l)) =>
            \A t \in Mutations(l) : SameList(t, m)

\* List 2 is a copy of list 1 that has since been pushed to; popping it and
\* erasing in it leave list 1 as it is.
C9_Witness ==
    /\ alive[1] /\ alive[2] /\ copyOf[2] = 1
    /\ Elems(Cur, 1) = <<1>> /\ Elems(Cur, 2) = <<2, 1>>
    /\ Elems(PopFront(Cur, 2), 1) = <<1>>
    /\ Elems(EraseAfter(Cur, 2, begin(Cur, 2)), 2) = <<2>>
    /\ Elems(Clear(Cur, 1), 2) = <<2, 1>>

\* The iterator on r still references what it referenced: an allocated cell
\* with the value it had, or the sentinel of a list that exists.
StillOn(t, r) ==
    /\ IterValid(t, r)
    /\ r \in Nodes => t.heap[r].value = heap[r].value

\* C10: InsertAfter keeps every existing iterator on its live node with its
\* value; EraseAfter(pos) frees exactly the successor of pos, the iterators
\* on that node become invalid and every other iterator keeps its live node.
C10_IteratorsKeepNodes ==
    \A l \in Lists : alive[l] => \A pos \in Positions(Cur, l) :
        /\ \A v \in Values : \A n \in FreeCells(Cur) \cup {Null} :
              LET t == InsertAfter(Cur, l, pos, v, n)
              IN  /\ LiveCells(Cur) \subseteq LiveCells(t)
                  /\ \A r \in Refs \ {Null} : IterValid(Cur, r) => StillOn(t, r)
        /\ NextOf(Cur, pos) # Null =>
              LET removed == NextOf(Cur, pos)
                  t == EraseAfter(Cur, l, pos)
              IN  /\ LiveCells(t) = LiveCells(Cur) \ {removed}
                  /\ ~IterValid(t, removed)
                  /\ \A r \in Refs \ {Null, removed} : IterValid(Cur, r) => StillOn(t, r)

\* A three-element list: erasing after its first element invalidates the
\* iterators on the second and keeps those on the first and the third;
\* inserting after the first keeps all three.
C10_Witness ==
    \E l \in Lists : \E n \in FreeCells(Cur) :
        /\ alive[l] /\ size_[l] = 3
        /\ LET c == Chain(Cur, l)
               e == EraseAfter(Cur, l, c[1])
               i == InsertAfter(Cur, l, c[1], 2, n)
           IN  /\ Len(c) = 3
               /\ ~IterValid(e, c[2]) /\ StillOn(e, c[1]) /\ StillOn(e, c[3])
               /\ Chain(e, l) = <<c[1], c[3]>>
               /\ StillOn(i, c[1]) /\ StillOn(i, c[2]) /\ StillOn(i, c[3])
               /\ Chain(i, l) = <<c[1], n, c[2], c[3]>>

\* ---------------------------------------------------------------------------
\* The index of position pos in list l: 0 for before-begin, i for the i-th node.
IndexOf(s, l, pos) ==
    IF IsSentinel(pos) THEN 0
    ELSE CHOOSE i \in 1..Len(Chain(s, l)) : Chain(s, l)[i] = pos

\* q with x put right after its first i entries; q without its i-th entry.
InsertAt(q, i, x) == SubSeq(q, 1, i) \o <<x>> \o SubSeq(q, i + 1, Len(q))
RemoveAt(q, i) == SubSeq(q, 1, i - 1) \o SubSeq(q, i + 1, Len(q))

\* C11: InsertAfter(pos, v) on a list with element sequence s yields s with v
\* inserted right after pos (at the front for before-begin), the other
\* elements and nodes in their order, the size one larger, and returns an
\* iterator to the new node, which holds v; from the empty list,
\* InsertAfter(before_begin(), 1) then InsertAfter(before_begin(), 2) gives {2, 1}.
C11_InsertAfterPlacesValue ==
    \A l \in Lists : alive[l] =>
        /\ \A pos \in Positions(Cur, l) : \A v \in Values : \A n \in FreeCells(Cur) :
               LET t == InsertAfter(Cur, l, pos, v, n)
                   i == IndexOf(Cur, l, pos)
               IN  /\ ~t.thrown
                   /\ Elems(t, l) = InsertAt(Elems(Cur, l), i, v)
                   /\ Chain(t, l) = InsertAt(Chain(Cur, l), i, n)
                   /\ t.size_[l] = size_[l] + 1
                   /\ t.ret = n /\ NextOf(t, pos) = n
                   /\ CellAt(t, n).live /\ CellAt(t, n).value = v
        /\ size_[l] = 0 =>
               \A n1, n2 \in FreeCells(Cur) : n1 # n2 =>
                   LET t1 == InsertAfter(Cur, l, before_begin(Cur, l), 1, n1)
                       t2 == InsertAfter(t1, l, before_begin(t1, l), 2, n2)
                   IN  Elems(t2, l) = <<2, 1>> /\ t2.size_[l] = 2

C11_Witness ==
    \E l \in Lists : \E n \in FreeCells(Cur) :
        /\ alive[l] /\ Elems(Cur, l) = <<1, 1>>
        /\ LET t == InsertAfter(Cur, l, Chain(Cur, l)[1], 2, n)
           IN  Elems(t, l) = <<1, 2, 1>> /\ t.ret = n /\ t.size_[l] = 3

\* C12: EraseAfter(pos), for a valid pos with a successor, removes exactly the
\* element right after pos and releases its node, keeps the others in order,
\* makes the size one smaller, and returns an iterator to the node that now
\* follows pos, or end() when there is none.
C12_EraseAfterRemovesSuccessor ==
    \A l \in Lists : alive[l] =>
        \A pos \in Positions(Cur, l) : NextOf(Cur, pos) # Null =>
            LET t == EraseAfter(Cur, l, pos)
                c == Chain(Cur, l)
                i == IndexOf(Cur, l, pos)
            IN  /\ t.stopped = "no" /\ ~t.dfree
                /\ Elems(t, l) = RemoveAt(Elems(Cur, l), i + 1)
                /\ Chain(t, l) = RemoveAt(c, i + 1)
                /\ LiveCells(t) = LiveCells(Cur) \ {c[i + 1]}
                /\ t.size_[l] = size_[l] - 1
                /\ t.ret = NextOf(t, pos)
                /\ t.ret = IF i + 2 <= Len(c) THEN c[i + 2] ELSE end(t, l)

C12_Witness ==
    \E l \in Lists :
        /\ alive[l] /\ Elems(Cur, l) = <<1, 2, 1>>
        /\ LET c == Chain(Cur, l)
               t == EraseAfter(Cur, l, c[1])
               u == EraseAfter(t, l, c[1])
           IN  /\ Elems(t, l) = <<1, 1>> /\ t.ret = c[3]
               /\ Elems(u, l) = <<1>> /\ u.ret = end(u, l) /\ u.size_[l] = 1

\* C13: on a non-empty list whose first element is x, PopFront() followed by
\* a PushFront(x) that gets its node restores the element sequence and the size.
C13_PopThenPushRestores ==
    \A l \in Lists : (alive[l] /\ head_[l] # Null) =>
        LET x == Elems(Cur, l)[1]
            p == PopFront(Cur, l)
        IN  \A n \in FreeCells(p) :
                LET t == PushFront(p, l, x, n)
                IN  /\ Elems(t, l) = Elems(Cur, l)
                    /\ t.size_[l] = size_[l]
                    /\ Len(Chain(t, l)) = size_[l]

C13_Witness ==
    \E l \in Lists :
        /\ alive[l] /\ Elems(Cur, l) = <<2, 1>>
        /\ LET p == PopFront(Cur, l)
           IN  /\ Elems(p, l) = <<1>>
               /\ \E n \in FreeCells(p) :
                      LET t == PushFront(p, l, 2, n)
                      IN  Elems(t, l) = <<2, 1>> /\ t.head_[l] = n /\ t.size_[l] = 2

\* The links, counters and cells are as before the call.
Unmodified(t) == t.heap = heap /\ t.head_ = head_ /\ t.size_ = size_

\* The copies of a Type value that may throw during one call: none (0) or
\* the k-th.
CopyFailures == 0..MaxNodes

\* C14: Clear() on any list terminates and leaves size 0, the sentinel's next
\* empty and begin() == end(), having released every element node; a second
\* Clear() right after it changes nothing and frees nothing.
C14_ClearEmptiesList ==
    \A l \in Lists : alive[l] => \A k \in CopyFailures :
        LET t == Clear(Env(k, Fault), l)
            u == Clear(t, l)
        IN  /\ t.stopped = "no" /\ ~t.dfree
            /\ t.size_[l] = 0 /\ t.head_[l] = Null
            /\ begin(t, l) = end(t, l)
            /\ LiveCells(t) = LiveCells(Cur) \ ChainSet(Cur, l)
            /\ u.heap = t.heap /\ u.head_ = t.head_ /\ u.size_ = t.size_
            /\ u.stopped = "no"

\* C15: a.swap(b) and swap(a, b) exchange the whole contents of the two lists
\* (sequences, sizes, nodes), allocate and free no node, leave every node its
\* value and successor; swapping twice, or a list with itself, restores the
\* original.
C15_SwapExchangesContents ==
    \A a, b \in Lists : (alive[a] /\ alive[b]) =>
        LET t == swap(Cur, a, b)
        IN  /\ Elems(t, a) = Elems(Cur, b) /\ Elems(t, b) = Elems(Cur, a)
            /\ Chain(t, a) = Chain(Cur, b) /\ Chain(t, b) = Chain(Cur, a)
            /\ t.size_[a] = size_[b] /\ t.size_[b] = size_[a]
            /\ t.heap = heap /\ t.dfree = dfree /\ ~t.thrown /\ t.stopped = "no"
            /\ FreeSwap(Cur, a, b) = t
            /\ swap(t, a, b) = Cur /\ FreeSwap(FreeSwap(Cur, a, b), a, b) = Cur
            /\ swap(Cur, a, a) = Cur /\ FreeSwap(Cur, a, a) = Cur

C15_Witness ==
    \E a, b \in Lists :
        /\ a # b /\ alive[a] /\ alive[b]
        /\ Elems(Cur, a) = <<1>> /\ Elems(Cur, b) = <<2, 2>>
        /\ LET t == FreeSwap(Cur, a, b)
           IN  /\ Elems(t, a) = <<2, 2>> /\ Elems(t, b) = <<1>>
               /\ t.size_[a] = 2 /\ t.size_[b] = 1
               /\ swap(t, a, b) = Cur

\* The literal sequences a list is constructed from.
Literals == UNION {[1..n -> Values] : n \in 0..(MaxInit + 1)}

\* C16: a list constructed from a literal sequence of values, of any length
\* including zero, has size equal to the length of the sequence, and iterating
\* it yields the values in the order written.
C16_InitListKeepsOrder ==
    \A l \in Lists : ~alive[l] =>
        \A values \in Literals : \A ids \in AllocSeqs(Cur, Len(values)) :
            LET t == InitListCtor(Cur, l, values, ids)
            IN  ~t.thrown =>
                    /\ t.alive[l]
                    /\ GetSize(t, l) = Len(values)
                    /\ Elems(t, l) = values
                    /\ ChainSet(t, l) = {ids[i] : i \in 1..Len(values)}

C16_Witness ==
    \E l \in Lists : \E ids \in AllocSeqs(Cur, 3) :
        /\ ~alive[l] /\ alive[Other(l)] /\ Elems(Cur, Other(l)) = <<2>>
        /\ LET t == InitListCtor(Cur, l, <<1, 2, 2>>, ids)
               z == InitListCtor(Cur, l, <<>>, <<>>)
           IN  /\ ~t.thrown /\ t.alive[l]
               /\ Elems(t, l) = <<1, 2, 2>> /\ GetSize(t, l) = 3
               /\ z.alive[l] /\ Elems(z, l) = <<>> /\ GetSize(z, l) = 0

\* x is lexicographically less than y: at the first index where they differ
\* x has the smaller value, or x is a proper prefix of y.
LexLess(x, y) ==
    \E k \in 1..(Len(x) + 1) :
        /\ k <= Len(y)
        /\ \A j \in 1..(k - 1) : x[j] = y[j]
        /\ (k <= Len(x) => x[k] < y[k])

\* C17: A < B exactly when A's sequence is lexicographically less than B's;
\* A > B iff B < A, A <= B iff not (B < A), A >= B iff not (A < B).
C17_OrderIsLexicographic ==
    \A a, b \in Lists : (alive[a] /\ alive[b]) =>
        /\ operator_lt(Cur, a, b) <=> LexLess(Elems(Cur, a), Elems(Cur, b))
        /\ operator_gt(Cur, a, b) <=> operator_lt(Cur, b, a)
        /\ operator_le(Cur, a, b) <=> ~operator_lt(Cur, b, a)
        /\ operator_ge(Cur, a, b) <=> ~operator_lt(Cur, a, b)

C17_Witness ==
    \E a, b \in Lists :
        /\ alive[a] /\ alive[b]
        /\ Elems(Cur, a) = <<1, 2>> /\ Elems(Cur, b) = <<2>>
        /\ operator_lt(Cur, a, b) /\ ~operator_lt(Cur, b, a)
        /\ operator_gt(Cur, b, a) /\ operator_le(Cur, a, b)
        /\ ~operator_ge(Cur, a, b) /\ operator_ge(Cur, b, a)

\* C18: A == B exactly when the sizes match and the elements are pairwise
\* equal in order; A != B is its negation; two lists with the same element
\* sequence, however built, are == and neither is < the other.
C18_EqualityIsElementwise ==
    \A a, b \in Lists : (alive[a] /\ alive[b]) =>
        LET x == Elems(Cur, a)
            y == Elems(Cur, b)
        IN  /\ operator_eq(Cur, a, b) <=>
                   (GetSize(Cur, a) = GetSize(Cur, b) /\ Len(x) = Len(y)
                    /\ \A i \in 1..Len(x) : x[i] = y[i])
            /\ operator_ne(Cur, a, b) <=> ~operator_eq(Cur, a, b)
            /\ x = y => /\ operator_eq(Cur, a, b)
                        /\ ~operator_lt(Cur, a, b) /\ ~operator_lt(Cur, b, a)

C18_Witness ==
    \E a, b \in Lists :
        /\ a # b /\ alive[a] /\ alive[b]
        /\ copyOf[a] = 0 /\ copyOf[b] = 0
        /\ Elems(Cur, a) = <<1, 2>> /\ Elems(Cur, b) = <<1, 2>>
        /\ ChainSet(Cur, a) \cap ChainSet(Cur, b) = {}
        /\ operator_eq(Cur, a, b) /\ ~operator_ne(Cur, a, b)
        /\ ~operator_lt(Cur, a, b) /\ ~operator_lt(Cur, b, a)

\* C19: a call that violates a precondition (PopFront on an empty list,
\* EraseAfter on an empty list or at a position without successor) is stopped
\* by an assertion before any link or size counter is modified.
C19_MisuseStoppedByAssert ==
    \A l \in Lists : alive[l] =>
        /\ head_[l] = Null =>
               \A g \in NullReads :
                   LET t == PopFront(Env(0, g), l)
                   IN  t.stopped = "assert" /\ Unmodified(t)
        /\ \A pos \in Positions(Cur, l) : NextOf(Cur, pos) = Null =>
               LET t == EraseAfter(Cur, l, pos)
               IN  t.stopped = "assert" /\ Unmodified(t)

\* C20: PopFront, EraseAfter and Clear, called with their preconditions met,
\* never fail: they allocate no node, make no copy that can fail, and run to
\* completion.
C20_RemovalsNeverFail ==
    \A l \in Lists : alive[l] => \A k \in CopyFailures :
        /\ head_[l] # Null =>
               LET t == PopFront(Env(k, Fault), l)
               IN  t.stopped = "no" /\ ~t.thrown /\ LiveCells(t) \subseteq LiveCells(Cur)
        /\ \A pos \in Positions(Cur, l) : NextOf(Cur, pos) # Null =>
               LET t == EraseAfter(Env(k, Fault), l, pos)
               IN  t.stopped = "no" /\ ~t.thrown /\ LiveCells(t) \subseteq LiveCells(Cur)
        /\ LET t == Clear(Env(k, Fault), l)
           IN  t.stopped = "no" /\ ~t.thrown /\ LiveCells(t) \subseteq LiveCells(Cur)

====
